---- MODULE Spec2Model ----
(***************************************************************************)
(* Model of the repository state engine GitState of the Git command        *)
(* visualizer (src/script.js, SECTION 1).                                  *)
(*                                                                         *)
(* The engine is a single synchronous object: every operation runs to      *)
(* completion, so every operation is one action.  Each operation is        *)
(* written as an operator from the state record (and its arguments) to a   *)
(* record  [st, ok, type, val] : the state it leaves, whether it returned  *)
(* (ok) or threw, the result kind or the error message, and the returned   *)
(* value.  The variable  last  records the most recent call.               *)
(*                                                                         *)
(* Commit ids are strings; branch, tag and remote tables are functions     *)
(* whose DOMAIN is the set of own keys of the JavaScript object; the       *)
(* commit table is the sequence of its entries in key (insertion) order,   *)
(* which is the order Object.keys() scans for prefix matches.  The         *)
(* timestamp field of a commit (Date.now()) is read by no operation of     *)
(* the engine and is left out of the commit record.                        *)
(***************************************************************************)
EXTENDS Integers, Sequences, FiniteSets, TLC

VARIABLES initialized, commits, branches, HEAD, detached, stash, tags, remote, last

vars == <<initialized, commits, branches, HEAD, detached, stash, tags, remote, last>>

(***************************************************************************)
(* Bounds of the model and the input alphabets.                            *)
(***************************************************************************)
MaxCommitsMerge == 4

MaxCommitsRebase == 6

MaxPlainRebase == 3

MaxCommitsReset == 2

MaxCommitsHead == 3

MaxStash == 1

MaxLog == 2

MaxSteps == 2

NULL == "null"

EmptyMap == [x \in {} |-> NULL]

IdPool == <<"a1", "b1", "a2", "c1", "b2", "c2", "a3", "b3">>

Prefixes == {"a", "b"}

DefaultBranch == "master"

Names == {"master", "feature"}

NoSuchName == "nope"

Msgs == {"m1", "m2"}

OneMsg == {"m1"}

TagNames == {"v1", "v2"}

(***************************************************************************)
(* The commit table.                                                       *)
(***************************************************************************)
StartsWith(s, p) == Len(p) <= Len(s) /\ SubSeq(s, 1, Len(p)) = p

Truthy(v) == v # NULL /\ v # ""

KeySeq(C) == [i \in 1..Len(C) |-> C[i].sha]

KeySet(C) == {C[i].sha : i \in 1..Len(C)}

Has(C, sha) == \E i \in 1..Len(C) : C[i].sha = sha

Get(C, sha) == C[CHOOSE i \in 1..Len(C) : C[i].sha = sha]

Put(C, rec) ==
  IF Has(C, rec.sha)
    THEN [i \in 1..Len(C) |-> IF C[i].sha = rec.sha THEN rec ELSE C[i]]
    ELSE Append(C, rec)

FindPrefix(C, p) ==
  LET hits == {i \in 1..Len(C) : StartsWith(C[i].sha, p)}
  IN  IF hits = {} THEN NULL
      ELSE C[CHOOSE i \in hits : \A j \in hits : i <= j].sha

MapGet(m, k) == IF k \in DOMAIN m THEN m[k] ELSE NULL

MapPut(m, k, v) == [x \in DOMAIN m \cup {k} |-> IF x = k THEN v ELSE m[x]]

NewCommit(sha, message, parents, br, isMerge, rebased, cherryPicked, originalSha) ==
  [sha |-> sha, message |-> message, parents |-> parents, branch |-> br,
   isMerge |-> isMerge, rebased |-> rebased, cherryPicked |-> cherryPicked,
   originalSha |-> originalSha]

St ==
  [initialized |-> initialized, commits |-> commits, branches |-> branches,
   HEAD |-> HEAD, detached |-> detached, stash |-> stash, tags |-> tags,
   remote |-> remote]

Ok(S, type, val) == [st |-> S, ok |-> TRUE, type |-> type, val |-> val]

Err(S, msg) == [st |-> S, ok |-> FALSE, type |-> msg, val |-> NULL]

currentSha(S) ==
  IF S.detached THEN S.HEAD
  ELSE IF Truthy(MapGet(S.branches, S.HEAD)) THEN S.branches[S.HEAD] ELSE NULL

(***************************************************************************)
(* Graph traversal helpers.                                                *)
(***************************************************************************)
ParentsOf(C, sha) == IF Has(C, sha) THEN Get(C, sha).parents ELSE <<>>

RECURSIVE isAncestorLoop_firstParentOnly(_, _, _, _)
isAncestorLoop_firstParentOnly(C, ancestor, queue, visited) ==
  IF queue = <<>> THEN FALSE
  ELSE LET sha == Head(queue)
           rest == Tail(queue)
       IN  IF ~Truthy(sha) \/ sha \in visited
             THEN isAncestorLoop_firstParentOnly(C, ancestor, rest, visited)
           ELSE IF sha = ancestor THEN TRUE
           ELSE isAncestorLoop_firstParentOnly(C, ancestor,
                  rest \o (IF ParentsOf(C, sha) = <<>> THEN <<>> ELSE <<ParentsOf(C, sha)[1]>>),
                  visited \cup {sha})

RECURSIVE isAncestorLoop(_, _, _, _)
isAncestorLoop(C, ancestor, queue, visited) ==
  IF queue = <<>> THEN FALSE
  ELSE LET sha == Head(queue)
           rest == Tail(queue)
       IN  IF ~Truthy(sha) \/ sha \in visited
             THEN isAncestorLoop(C, ancestor, rest, visited)
           ELSE IF sha = ancestor THEN TRUE
           ELSE isAncestorLoop(C, ancestor, rest \o ParentsOf(C, sha), visited \cup {sha})

isAncestor(C, ancestor, descendant) == isAncestorLoop(C, ancestor, <<descendant>>, {})

RECURSIVE getAllAncestorsLoop(_, _, _)
getAllAncestorsLoop(C, queue, set) ==
  IF queue = <<>> THEN set
  ELSE LET s == Head(queue)
           rest == Tail(queue)
       IN  IF ~Truthy(s) \/ s \in set
             THEN getAllAncestorsLoop(C, rest, set)
           ELSE getAllAncestorsLoop(C, rest \o ParentsOf(C, s), set \cup {s})

getAllAncestors_withoutStart(C, sha) == getAllAncestorsLoop(C, ParentsOf(C, sha), {})

getAllAncestors(C, sha) == getAllAncestorsLoop(C, <<sha>>, {})

RECURSIVE getCommitsSinceLoop(_, _, _, _, _)
getCommitsSinceLoop(C, excludeSet, queue, visited, result) ==
  IF queue = <<>> THEN result
  ELSE LET sha == Head(queue)
           rest == Tail(queue)
       IN  IF ~Truthy(sha) \/ sha \in visited \/ sha \in excludeSet
             THEN getCommitsSinceLoop(C, excludeSet, rest, visited, result)
           ELSE IF ~Has(C, sha)
             THEN getCommitsSinceLoop(C, excludeSet, rest, visited \cup {sha}, result)
           ELSE getCommitsSinceLoop(C, excludeSet,
                  rest \o SelectSeq(Get(C, sha).parents, LAMBDA p : p \notin excludeSet),
                  visited \cup {sha}, <<Get(C, sha)>> \o result)

getCommitsSince(C, tipSha, excludeSet) ==
  getCommitsSinceLoop(C, excludeSet, <<tipSha>>, {}, <<>>)

RECURSIVE walkBack_stopsAtRoot(_, _, _)
walkBack_stopsAtRoot(C, sha, steps) ==
  IF steps = 0 THEN sha
  ELSE IF ~Has(C, sha) \/ Len(Get(C, sha).parents) = 0 THEN sha
  ELSE walkBack_stopsAtRoot(C, Get(C, sha).parents[1], steps - 1)

RECURSIVE walkBack(_, _, _)
walkBack(C, sha, steps) ==
  IF steps = 0 THEN sha
  ELSE IF ~Has(C, sha) \/ Len(Get(C, sha).parents) = 0 THEN NULL
  ELSE walkBack(C, Get(C, sha).parents[1], steps - 1)

(***************************************************************************)
(* assertValidState: "ok" when it returns, else the message it throws.     *)
(***************************************************************************)
assertValidState(S) ==
  IF S.detached /\ ~Has(S.commits, S.HEAD)
    THEN "Detached HEAD points to invalid commit"
  ELSE IF ~S.detached /\ ~Truthy(MapGet(S.branches, S.HEAD))
    THEN "HEAD branch does not exist"
  ELSE IF ~S.detached /\ ~Has(S.commits, S.branches[S.HEAD])
    THEN "HEAD branch points to invalid commit"
  ELSE IF \E name \in DOMAIN S.branches :
            Truthy(S.branches[name]) /\ ~Has(S.commits, S.branches[name])
    THEN "Branch points to invalid commit"
  ELSE IF \E i \in 1..Len(S.commits) : \E j \in 1..Len(S.commits[i].parents) :
            ~Has(S.commits, S.commits[i].parents[j])
    THEN "Commit has orphaned parent"
  ELSE "ok"

(***************************************************************************)
(* The operations (function declarations of GitState).                     *)
(***************************************************************************)
init_keepsRemote(S) ==
  Ok([initialized |-> TRUE, commits |-> <<>>,
      branches |-> [n \in {DefaultBranch} |-> NULL],
      HEAD |-> DefaultBranch, detached |-> FALSE, stash |-> <<>>,
      tags |-> EmptyMap, remote |-> S.remote], "init", NULL)

init(S) ==
  Ok([initialized |-> TRUE, commits |-> <<>>,
      branches |-> [n \in {DefaultBranch} |-> NULL],
      HEAD |-> DefaultBranch, detached |-> FALSE, stash |-> <<>>,
      tags |-> EmptyMap, remote |-> EmptyMap], "init", NULL)

commit_alwaysWritesBranch(S, message, sha) ==
  IF ~S.initialized THEN Err(S, "not a git repository")
  ELSE LET parent == currentSha(S)
           rec == NewCommit(sha, message,
                    IF Truthy(parent) THEN <<parent>> ELSE <<>>,
                    IF S.detached THEN NULL ELSE S.HEAD, FALSE, FALSE, FALSE, NULL)
           C2 == Put(S.commits, rec)
       IN  IF S.detached
             THEN Ok([S EXCEPT !.commits = C2, !.HEAD = sha,
                               !.branches = MapPut(S.branches, S.HEAD, sha)], "commit", sha)
             ELSE Ok([S EXCEPT !.commits = C2,
                               !.branches = MapPut(S.branches, S.HEAD, sha)], "commit", sha)

commit(S, message, sha) ==
  IF ~S.initialized THEN Err(S, "not a git repository")
  ELSE LET parent == currentSha(S)
           rec == NewCommit(sha, message,
                    IF Truthy(parent) THEN <<parent>> ELSE <<>>,
                    IF S.detached THEN NULL ELSE S.HEAD, FALSE, FALSE, FALSE, NULL)
           C2 == Put(S.commits, rec)
       IN  IF S.detached
             THEN Ok([S EXCEPT !.commits = C2, !.HEAD = sha], "commit", sha)
             ELSE Ok([S EXCEPT !.commits = C2,
                               !.branches = MapPut(S.branches, S.HEAD, sha)], "commit", sha)

branch_noTipCheck(S, name) ==
  IF ~S.initialized THEN Err(S, "not a git repository")
  ELSE IF name \in DOMAIN S.branches THEN Err(S, "branch already exists")
  ELSE Ok([S EXCEPT !.branches = MapPut(S.branches, name, currentSha(S))], "branch", name)

branch(S, name) ==
  IF ~S.initialized THEN Err(S, "not a git repository")
  ELSE IF name \in DOMAIN S.branches THEN Err(S, "branch already exists")
  ELSE LET current == currentSha(S)
       IN  IF ~Truthy(current) THEN Err(S, "cannot create branch: no commits yet")
           ELSE Ok([S EXCEPT !.branches = MapPut(S.branches, name, current)], "branch", name)

checkout_noPathspecCheck(S, target) ==
  IF ~S.initialized THEN Err(S, "not a git repository")
  ELSE IF target \in DOMAIN S.branches
    THEN Ok([S EXCEPT !.HEAD = target, !.detached = FALSE], "branch", target)
  ELSE Ok([S EXCEPT !.HEAD = target, !.detached = TRUE], "detached", target)

checkout(S, target) ==
  IF ~S.initialized THEN Err(S, "not a git repository")
  ELSE IF target \in DOMAIN S.branches
    THEN Ok([S EXCEPT !.HEAD = target, !.detached = FALSE], "branch", target)
  ELSE IF Has(S.commits, target)
    THEN Ok([S EXCEPT !.HEAD = target, !.detached = TRUE], "detached", target)
  ELSE Err(S, "pathspec did not match any known branch or commit")

checkoutNewBranch(S, name) ==
  IF ~S.initialized THEN Err(S, "not a git repository")
  ELSE IF name \in DOMAIN S.branches THEN Err(S, "branch already exists")
  ELSE Ok([S EXCEPT !.branches = MapPut(S.branches, name, currentSha(S)),
                    !.HEAD = name, !.detached = FALSE], "checkoutNewBranch", name)

mergeFastForward_keepsTip(S, curSha, sourceSha) ==
  Ok([S EXCEPT !.branches = MapPut(S.branches, S.HEAD, curSha)], "fast-forward", sourceSha)

mergeFastForward(S, curSha, sourceSha) ==
  Ok([S EXCEPT !.branches = MapPut(S.branches, S.HEAD, sourceSha)], "fast-forward", sourceSha)

mergeCommit_parentByName(S, sourceBranch, sha, curSha, sourceSha) ==
  NewCommit(sha, "Merge branch '" \o sourceBranch \o "' into " \o S.HEAD,
            <<curSha, sourceBranch>>, S.HEAD, TRUE, FALSE, FALSE, NULL)

mergeCommit_parentsSwapped(S, sourceBranch, sha, curSha, sourceSha) ==
  NewCommit(sha, "Merge branch '" \o sourceBranch \o "' into " \o S.HEAD,
            <<sourceSha, curSha>>, S.HEAD, TRUE, FALSE, FALSE, NULL)

mergeCommit_firstParentOnly(S, sourceBranch, sha, curSha, sourceSha) ==
  NewCommit(sha, "Merge branch '" \o sourceBranch \o "' into " \o S.HEAD,
            <<curSha>>, S.HEAD, TRUE, FALSE, FALSE, NULL)

mergeCommit(S, sourceBranch, sha, curSha, sourceSha) ==
  NewCommit(sha, "Merge branch '" \o sourceBranch \o "' into " \o S.HEAD,
            <<curSha, sourceSha>>, S.HEAD, TRUE, FALSE, FALSE, NULL)

merge_noSelfCheck(S, sourceBranch, sha) ==
  IF ~S.initialized THEN Err(S, "not a git repository")
  ELSE IF S.detached THEN Err(S, "cannot merge in detached HEAD state")
  ELSE IF sourceBranch \notin DOMAIN S.branches THEN Err(S, "branch not found")
  ELSE LET sourceSha == S.branches[sourceBranch]
           curSha == currentSha(S)
       IN  IF ~Truthy(sourceSha) THEN Err(S, "branch has no commits")
           ELSE IF ~Truthy(curSha) THEN Err(S, "current branch has no commits")
           ELSE IF sourceSha = curSha \/ isAncestor(S.commits, sourceSha, curSha)
             THEN Ok(S, "already-up-to-date", NULL)
           ELSE IF isAncestor(S.commits, curSha, sourceSha)
             THEN mergeFastForward(S, curSha, sourceSha)
           ELSE LET rec == mergeCommit(S, sourceBranch, sha, curSha, sourceSha)
                IN  Ok([S EXCEPT !.commits = Put(S.commits, rec),
                                 !.branches = MapPut(S.branches, S.HEAD, sha)],
                       "merge", sha)

merge(S, sourceBranch, sha) ==
  IF ~S.initialized THEN Err(S, "not a git repository")
  ELSE IF S.detached THEN Err(S, "cannot merge in detached HEAD state")
  ELSE IF sourceBranch = S.HEAD THEN Err(S, "cannot merge a branch into itself")
  ELSE IF sourceBranch \notin DOMAIN S.branches THEN Err(S, "branch not found")
  ELSE LET sourceSha == S.branches[sourceBranch]
           curSha == currentSha(S)
       IN  IF ~Truthy(sourceSha) THEN Err(S, "branch has no commits")
           ELSE IF ~Truthy(curSha) THEN Err(S, "current branch has no commits")
           ELSE IF sourceSha = curSha \/ isAncestor(S.commits, sourceSha, curSha)
             THEN Ok(S, "already-up-to-date", NULL)
           ELSE IF isAncestor(S.commits, curSha, sourceSha)
             THEN mergeFastForward(S, curSha, sourceSha)
           ELSE LET rec == mergeCommit(S, sourceBranch, sha, curSha, sourceSha)
                IN  Ok([S EXCEPT !.commits = Put(S.commits, rec),
                                 !.branches = MapPut(S.branches, S.HEAD, sha)],
                       "merge", sha)

RECURSIVE replay_rewritesInPlace(_, _, _, _, _)
replay_rewritesInPlace(C, toReplay, base, shas, head) ==
  IF toReplay = <<>> THEN [commits |-> C, base |-> base]
  ELSE LET oldCommit == Head(toReplay)
           rec == NewCommit(oldCommit.sha, oldCommit.message, <<base>>, head,
                            FALSE, TRUE, FALSE, oldCommit.sha)
       IN  replay_rewritesInPlace(Put(C, rec), Tail(toReplay), oldCommit.sha, Tail(shas), head)

RECURSIVE replay_baseNotAdvanced(_, _, _, _, _)
replay_baseNotAdvanced(C, toReplay, base, shas, head) ==
  IF toReplay = <<>> THEN [commits |-> C, base |-> base]
  ELSE LET oldCommit == Head(toReplay)
           newSha == Head(shas)
           rec == NewCommit(newSha, oldCommit.message, <<base>>, head,
                            FALSE, TRUE, FALSE, oldCommit.sha)
       IN  replay_baseNotAdvanced(Put(C, rec), Tail(toReplay), base, Tail(shas), head)

RECURSIVE replay(_, _, _, _, _)
replay(C, toReplay, base, shas, head) ==
  IF toReplay = <<>> THEN [commits |-> C, base |-> base]
  ELSE LET oldCommit == Head(toReplay)
           newSha == Head(shas)
           rec == NewCommit(newSha, oldCommit.message, <<base>>, head,
                            FALSE, TRUE, FALSE, oldCommit.sha)
       IN  replay(Put(C, rec), Tail(toReplay), newSha, Tail(shas), head)

toReplayOf_excludeTipOnly(S, targetBranch) ==
  getCommitsSince(S.commits, currentSha(S), {S.branches[targetBranch]})

toReplayOf(S, targetBranch) ==
  getCommitsSince(S.commits, currentSha(S),
                  getAllAncestors(S.commits, S.branches[targetBranch]))

rebase(S, targetBranch, shas) ==
  IF ~S.initialized THEN Err(S, "not a git repository")
  ELSE IF S.detached THEN Err(S, "cannot rebase in detached HEAD state")
  ELSE IF targetBranch = S.HEAD THEN Err(S, "cannot rebase a branch onto itself")
  ELSE IF targetBranch \notin DOMAIN S.branches THEN Err(S, "branch not found")
  ELSE LET targetSha == S.branches[targetBranch]
           curSha == currentSha(S)
       IN  IF ~Truthy(targetSha) THEN Err(S, "branch has no commits")
           ELSE IF ~Truthy(curSha) THEN Err(S, "current branch has no commits to rebase")
           ELSE LET toReplay == toReplayOf(S, targetBranch)
                IN  IF Len(toReplay) = 0 THEN Ok(S, "already-up-to-date", NULL)
                    ELSE LET r == replay(S.commits, toReplay, targetSha, shas, S.HEAD)
                         IN  Ok([S EXCEPT !.commits = r.commits,
                                          !.branches = MapPut(S.branches, S.HEAD, r.base)],
                                "rebase", [count |-> Len(toReplay), tip |-> r.base])

cherryPick_originalIsArgument(S, sha, newSha) ==
  LET match == IF Has(S.commits, sha) THEN sha ELSE FindPrefix(S.commits, sha)
  IN  IF ~Truthy(match) THEN Err(S, "bad revision")
      ELSE LET source == Get(S.commits, match)
               curSha == currentSha(S)
           IN  IF ~Truthy(curSha) THEN Err(S, "cannot cherry-pick: no commits on current branch")
               ELSE LET rec == NewCommit(newSha, source.message, <<curSha>>,
                                 IF S.detached THEN NULL ELSE S.HEAD,
                                 FALSE, FALSE, TRUE, sha)
                        C2 == Put(S.commits, rec)
                        val == [sha |-> newSha, original |-> match, message |-> source.message]
                    IN  IF S.detached
                          THEN Ok([S EXCEPT !.commits = C2, !.HEAD = newSha], "cherry-pick", val)
                          ELSE Ok([S EXCEPT !.commits = C2,
                                            !.branches = MapPut(S.branches, S.HEAD, newSha)],
                                  "cherry-pick", val)

cherryPick(S, sha, newSha) ==
  LET match == IF Has(S.commits, sha) THEN sha ELSE FindPrefix(S.commits, sha)
  IN  IF ~Truthy(match) THEN Err(S, "bad revision")
      ELSE LET source == Get(S.commits, match)
               curSha == currentSha(S)
           IN  IF ~Truthy(curSha) THEN Err(S, "cannot cherry-pick: no commits on current branch")
               ELSE LET rec == NewCommit(newSha, source.message, <<curSha>>,
                                 IF S.detached THEN NULL ELSE S.HEAD,
                                 FALSE, FALSE, TRUE, match)
                        C2 == Put(S.commits, rec)
                        val == [sha |-> newSha, original |-> match, message |-> source.message]
                    IN  IF S.detached
                          THEN Ok([S EXCEPT !.commits = C2, !.HEAD = newSha], "cherry-pick", val)
                          ELSE Ok([S EXCEPT !.commits = C2,
                                            !.branches = MapPut(S.branches, S.HEAD, newSha)],
                                  "cherry-pick", val)

DigitVal(ch) ==
  CASE ch = "0" -> 0 [] ch = "1" -> 1 [] ch = "2" -> 2 [] ch = "3" -> 3 [] ch = "4" -> 4
    [] ch = "5" -> 5 [] ch = "6" -> 6 [] ch = "7" -> 7 [] ch = "8" -> 8 [] ch = "9" -> 9
    [] OTHER -> -1

RECURSIVE parseInt(_, _)
parseInt(str, acc) ==
  IF Len(str) = 0 THEN acc
  ELSE parseInt(SubSeq(str, 2, Len(str)), 10 * acc + DigitVal(SubSeq(str, 1, 1)))

IsHeadTilde(target) ==
  /\ Len(target) > 5
  /\ SubSeq(target, 1, 5) = "HEAD~"
  /\ \A i \in 6..Len(target) : DigitVal(SubSeq(target, i, i)) >= 0

resetHard_noShaCheck(S, target) ==
  IF ~S.initialized THEN Err(S, "not a git repository")
  ELSE IF S.detached THEN Err(S, "cannot reset in detached HEAD state")
  ELSE IF IsHeadTilde(target)
    THEN LET steps == parseInt(SubSeq(target, 6, Len(target)), 0)
             sha == walkBack(S.commits, currentSha(S), steps)
         IN  IF ~Truthy(sha) THEN Err(S, "HEAD~N is not a valid commit")
             ELSE Ok([S EXCEPT !.branches = MapPut(S.branches, S.HEAD, sha)], "reset", sha)
  ELSE IF target = "HEAD"
    THEN Ok([S EXCEPT !.branches = MapPut(S.branches, S.HEAD, currentSha(S))],
            "reset", currentSha(S))
  ELSE LET m == FindPrefix(S.commits, target)
       IN  IF Truthy(m)
             THEN Ok([S EXCEPT !.branches = MapPut(S.branches, S.HEAD, m)], "reset", m)
           ELSE Ok([S EXCEPT !.branches = MapPut(S.branches, S.HEAD, target)], "reset", target)

resetHard_assignsBeforeCheck(S, target) ==
  IF ~S.initialized THEN Err(S, "not a git repository")
  ELSE IF S.detached THEN Err(S, "cannot reset in detached HEAD state")
  ELSE IF IsHeadTilde(target)
    THEN LET steps == parseInt(SubSeq(target, 6, Len(target)), 0)
             sha == walkBack(S.commits, currentSha(S), steps)
         IN  IF ~Truthy(sha) THEN Err(S, "HEAD~N is not a valid commit")
             ELSE Ok([S EXCEPT !.branches = MapPut(S.branches, S.HEAD, sha)], "reset", sha)
  ELSE IF target = "HEAD"
    THEN Ok([S EXCEPT !.branches = MapPut(S.branches, S.HEAD, currentSha(S))],
            "reset", currentSha(S))
  ELSE LET m == FindPrefix(S.commits, target)
       IN  IF Truthy(m)
             THEN Ok([S EXCEPT !.branches = MapPut(S.branches, S.HEAD, m)], "reset", m)
           ELSE IF ~Has(S.commits, target)
             THEN Err([S EXCEPT !.branches = MapPut(S.branches, S.HEAD, target)],
                      "not a valid commit SHA")
           ELSE Ok([S EXCEPT !.branches = MapPut(S.branches, S.HEAD, target)], "reset", target)

resetHard(S, target) ==
  IF ~S.initialized THEN Err(S, "not a git repository")
  ELSE IF S.detached THEN Err(S, "cannot reset in detached HEAD state")
  ELSE IF IsHeadTilde(target)
    THEN LET steps == parseInt(SubSeq(target, 6, Len(target)), 0)
             sha == walkBack(S.commits, currentSha(S), steps)
         IN  IF ~Truthy(sha) THEN Err(S, "HEAD~N is not a valid commit")
             ELSE Ok([S EXCEPT !.branches = MapPut(S.branches, S.HEAD, sha)], "reset", sha)
  ELSE IF target = "HEAD"
    THEN Ok([S EXCEPT !.branches = MapPut(S.branches, S.HEAD, currentSha(S))],
            "reset", currentSha(S))
  ELSE LET m == FindPrefix(S.commits, target)
       IN  IF Truthy(m)
             THEN Ok([S EXCEPT !.branches = MapPut(S.branches, S.HEAD, m)], "reset", m)
           ELSE IF ~Has(S.commits, target) THEN Err(S, "not a valid commit SHA")
           ELSE Ok([S EXCEPT !.branches = MapPut(S.branches, S.HEAD, target)], "reset", target)

stashPush(S) ==
  IF ~S.initialized THEN Err(S, "not a git repository")
  ELSE LET c == currentSha(S)
       IN  IF ~Truthy(c) THEN Err(S, "nothing to stash")
           ELSE Ok([S EXCEPT !.stash = Append(S.stash, c)], "stash", Len(S.stash))

stashPop_removesOldest(S) ==
  IF ~S.initialized THEN Err(S, "not a git repository")
  ELSE IF Len(S.stash) = 0 THEN Err(S, "no stash entries found")
  ELSE Ok([S EXCEPT !.stash = Tail(S.stash)], "stash-pop", Head(S.stash))

stashPop(S) ==
  IF ~S.initialized THEN Err(S, "not a git repository")
  ELSE IF Len(S.stash) = 0 THEN Err(S, "no stash entries found")
  ELSE Ok([S EXCEPT !.stash = SubSeq(S.stash, 1, Len(S.stash) - 1)],
          "stash-pop", S.stash[Len(S.stash)])

tag_overwrites(S, name, target) ==
  IF ~S.initialized THEN Err(S, "not a git repository")
  ELSE LET sha0 == IF Truthy(target) THEN target ELSE currentSha(S)
       IN  IF ~Truthy(sha0) THEN Err(S, "no commits to tag")
           ELSE LET m == FindPrefix(S.commits, sha0)
                    sha == IF Truthy(m) THEN m ELSE sha0
                IN  IF ~Has(S.commits, sha) THEN Err(S, "not a valid SHA")
                    ELSE Ok([S EXCEPT !.tags = MapPut(S.tags, name, sha)], "tag", sha)

tag_acceptsAnyTarget(S, name, target) ==
  IF ~S.initialized THEN Err(S, "not a git repository")
  ELSE IF Truthy(MapGet(S.tags, name)) THEN Err(S, "tag already exists")
  ELSE LET sha0 == IF Truthy(target) THEN target ELSE currentSha(S)
       IN  IF ~Truthy(sha0) THEN Err(S, "no commits to tag")
           ELSE LET m == FindPrefix(S.commits, sha0)
                    sha == IF Truthy(m) THEN m ELSE sha0
                IN  Ok([S EXCEPT !.tags = MapPut(S.tags, name, sha)], "tag", sha)

tag(S, name, target) ==
  IF ~S.initialized THEN Err(S, "not a git repository")
  ELSE IF Truthy(MapGet(S.tags, name)) THEN Err(S, "tag already exists")
  ELSE LET sha0 == IF Truthy(target) THEN target ELSE currentSha(S)
       IN  IF ~Truthy(sha0) THEN Err(S, "no commits to tag")
           ELSE LET m == FindPrefix(S.commits, sha0)
                    sha == IF Truthy(m) THEN m ELSE sha0
                IN  IF ~Has(S.commits, sha) THEN Err(S, "not a valid SHA")
                    ELSE Ok([S EXCEPT !.tags = MapPut(S.tags, name, sha)], "tag", sha)

RECURSIVE logLoop_firstParentOnly(_, _, _, _, _)
logLoop_firstParentOnly(C, limit, queue, visited, result) ==
  IF queue = <<>> \/ ~(Len(result) < limit) THEN result
  ELSE LET sha == Head(queue)
           rest == Tail(queue)
       IN  IF ~Truthy(sha) \/ sha \in visited
             THEN logLoop_firstParentOnly(C, limit, rest, visited, result)
           ELSE IF ~Has(C, sha)
             THEN logLoop_firstParentOnly(C, limit, rest, visited \cup {sha}, result)
           ELSE logLoop_firstParentOnly(C, limit,
                  rest \o (IF Get(C, sha).parents = <<>> THEN <<>>
                           ELSE <<Get(C, sha).parents[1]>>),
                  visited \cup {sha}, Append(result, Get(C, sha)))

RECURSIVE logLoop(_, _, _, _, _)
logLoop(C, limit, queue, visited, result) ==
  IF queue = <<>> \/ ~(Len(result) < limit) THEN result
  ELSE LET sha == Head(queue)
           rest == Tail(queue)
       IN  IF ~Truthy(sha) \/ sha \in visited
             THEN logLoop(C, limit, rest, visited, result)
           ELSE IF ~Has(C, sha)
             THEN logLoop(C, limit, rest, visited \cup {sha}, result)
           ELSE logLoop(C, limit, rest \o Get(C, sha).parents, visited \cup {sha},
                        Append(result, Get(C, sha)))

log(S, limit) ==
  IF ~S.initialized THEN Err(S, "not a git repository")
  ELSE LET current == currentSha(S)
       IN  IF ~Truthy(current) THEN Ok(S, "log", <<>>)
           ELSE Ok(S, "log", logLoop(S.commits, limit, <<current>>, {}, <<>>))

status(S) ==
  IF ~S.initialized THEN Err(S, "not a git repository")
  ELSE Ok(S, "status",
          [head |-> S.HEAD, detached |-> S.detached,
           branch |-> IF S.detached THEN NULL ELSE S.HEAD,
           sha |-> currentSha(S), branches |-> DOMAIN S.branches,
           stashCount |-> Len(S.stash)])

push_ignoresName(S, branchName) ==
  IF ~S.initialized THEN Err(S, "not a git repository")
  ELSE LET name == IF ~S.detached THEN S.HEAD ELSE NULL
       IN  IF ~Truthy(name) THEN Err(S, "cannot push in detached HEAD state")
           ELSE IF name \notin DOMAIN S.branches THEN Err(S, "branch not found")
           ELSE LET sha == S.branches[name]
                IN  IF ~Truthy(sha) THEN Err(S, "branch has no commits to push")
                    ELSE Ok([S EXCEPT !.remote = MapPut(S.remote, name, sha)], "push",
                            [branch |-> name, sha |-> sha,
                             isNew |-> name \notin DOMAIN S.remote,
                             wasUpToDate |-> name \in DOMAIN S.remote /\ S.remote[name] = sha])

push(S, branchName) ==
  IF ~S.initialized THEN Err(S, "not a git repository")
  ELSE LET name == IF Truthy(branchName) THEN branchName
                   ELSE IF ~S.detached THEN S.HEAD ELSE NULL
       IN  IF ~Truthy(name) THEN Err(S, "cannot push in detached HEAD state")
           ELSE IF name \notin DOMAIN S.branches THEN Err(S, "branch not found")
           ELSE LET sha == S.branches[name]
                IN  IF ~Truthy(sha) THEN Err(S, "branch has no commits to push")
                    ELSE Ok([S EXCEPT !.remote = MapPut(S.remote, name, sha)], "push",
                            [branch |-> name, sha |-> sha,
                             isNew |-> name \notin DOMAIN S.remote,
                             wasUpToDate |-> name \in DOMAIN S.remote /\ S.remote[name] = sha])

pull_keepsLocal(S, branchName) ==
  IF ~S.initialized THEN Err(S, "not a git repository")
  ELSE LET name == IF Truthy(branchName) THEN branchName
                   ELSE IF ~S.detached THEN S.HEAD ELSE NULL
       IN  IF ~Truthy(name) THEN Err(S, "cannot pull in detached HEAD state")
           ELSE IF ~Truthy(MapGet(S.remote, name)) THEN Err(S, "no remote tracking branch")
           ELSE LET remoteSha == S.remote[name]
                IN  IF name \in DOMAIN S.branches /\ remoteSha = S.branches[name]
                      THEN Ok(S, "up-to-date", name)
                    ELSE IF isAncestor(S.commits, S.branches[name], remoteSha)
                      THEN Ok([S EXCEPT !.branches = MapPut(S.branches, name, remoteSha)],
                              "fast-forward", remoteSha)
                    ELSE Ok(S, "fast-forward", remoteSha)

pull_alwaysMoves(S, branchName) ==
  IF ~S.initialized THEN Err(S, "not a git repository")
  ELSE LET name == IF Truthy(branchName) THEN branchName
                   ELSE IF ~S.detached THEN S.HEAD ELSE NULL
       IN  IF ~Truthy(name) THEN Err(S, "cannot pull in detached HEAD state")
           ELSE IF ~Truthy(MapGet(S.remote, name)) THEN Err(S, "no remote tracking branch")
           ELSE LET remoteSha == S.remote[name]
                IN  Ok([S EXCEPT !.branches = MapPut(S.branches, name, remoteSha)],
                       "fast-forward", remoteSha)

pull(S, branchName) ==
  IF ~S.initialized THEN Err(S, "not a git repository")
  ELSE LET name == IF Truthy(branchName) THEN branchName
                   ELSE IF ~S.detached THEN S.HEAD ELSE NULL
       IN  IF ~Truthy(name) THEN Err(S, "cannot pull in detached HEAD state")
           ELSE IF ~Truthy(MapGet(S.remote, name)) THEN Err(S, "no remote tracking branch")
           ELSE LET remoteSha == S.remote[name]
                IN  IF name \in DOMAIN S.branches /\ remoteSha = S.branches[name]
                      THEN Ok(S, "up-to-date", name)
                    ELSE Ok([S EXCEPT !.branches = MapPut(S.branches, name, remoteSha)],
                            "fast-forward", remoteSha)

(***************************************************************************)
(* The exported operations: each mutator wrapped between two calls of      *)
(* assertValidState.  An exception of the first check or of the body       *)
(* leaves the state as the body left it; so does one of the second check.  *)
(***************************************************************************)
Wrapped(S, r) ==
  IF assertValidState(S) # "ok" THEN Err(S, assertValidState(S))
  ELSE IF ~r.ok THEN r
  ELSE IF assertValidState(r.st) # "ok" THEN Err(r.st, assertValidState(r.st))
  ELSE r

(***************************************************************************)
(* Inputs.  _sha() draws a random token.  The engine treats ids as opaque  *)
(* keys except in its prefix scans, so the model hands out the ids of      *)
(* IdPool in order; the pool mixes ids that share a prefix with ids whose  *)
(* prefix is unique.                                                       *)
(***************************************************************************)
sha_repeatsLast(C) ==
  IF C = <<>> THEN {IdPool[1]} ELSE {C[Len(C)].sha}

sha(C) ==
  LET unused == {i \in 1..Len(IdPool) : ~Has(C, IdPool[i])}
  IN  {IdPool[i] : i \in {k \in unused : \A j \in unused : k <= j}}

RECURSIVE shaSeqs(_, _)
shaSeqs(C, n) ==
  IF n = 0 THEN {<<>>}
  ELSE UNION {{<<x>> \o t : t \in shaSeqs(Append(C, [sha |-> x]), n - 1)} : x \in sha(C)}

StepStr(n) == CASE n = 0 -> "0" [] n = 1 -> "1" [] n = 2 -> "2" [] n = 3 -> "3" [] OTHER -> "4"

RefArgs == KeySet(commits) \cup Prefixes \cup {NoSuchName}

BranchArgs == Names \cup {NoSuchName}

ResetArgs == {"HEAD"} \cup {"HEAD~" \o StepStr(n) : n \in 0..MaxSteps} \cup RefArgs

(***************************************************************************)
(* Actions: one call of one operation.  max bounds the commit table.       *)
(***************************************************************************)
NoCall == [op |-> "none", arg |-> NULL, ok |-> TRUE, type |-> "none", val |-> NULL]

Init ==
  /\ initialized = FALSE
  /\ commits = <<>>
  /\ branches = EmptyMap
  /\ HEAD = NULL
  /\ detached = FALSE
  /\ stash = <<>>
  /\ tags = EmptyMap
  /\ remote = EmptyMap
  /\ last = NoCall

Apply(op, arg, r) ==
  /\ initialized' = r.st.initialized
  /\ commits' = r.st.commits
  /\ branches' = r.st.branches
  /\ HEAD' = r.st.HEAD
  /\ detached' = r.st.detached
  /\ stash' = r.st.stash
  /\ tags' = r.st.tags
  /\ remote' = r.st.remote
  /\ last' = [op |-> op, arg |-> arg, ok |-> r.ok, type |-> r.type, val |-> r.val]

NeededShas(targetBranch) ==
  IF /\ initialized /\ ~detached /\ targetBranch # HEAD
     /\ targetBranch \in DOMAIN branches
     /\ Truthy(branches[targetBranch]) /\ Truthy(currentSha(St))
    THEN Len(toReplayOf(St, targetBranch)) ELSE 0

DoInit == Apply("init", NULL, init(St))

DoCommit(M, max) ==
  \E message \in M : \E s \in sha(commits) :
    Len(commits) < max /\ Apply("commit", message, commit(St, message, s))

DoBranch == \E name \in Names : Apply("branch", name, branch(St, name))

DoCheckout(A) == \E target \in A : Apply("checkout", target, checkout(St, target))

DoCheckoutNewBranch ==
  \E name \in Names : Apply("checkoutNewBranch", name, checkoutNewBranch(St, name))

DoMerge(A, max) ==
  \E sourceBranch \in A : \E s \in sha(commits) :
    /\ Len(merge(St, sourceBranch, s).st.commits) <= max
    /\ Apply("merge", sourceBranch, merge(St, sourceBranch, s))

DoRebase(A, max) ==
  \E targetBranch \in A :
    /\ Len(commits) + NeededShas(targetBranch) <= max
    /\ \E shas \in shaSeqs(commits, NeededShas(targetBranch)) :
         Apply("rebase", targetBranch, rebase(St, targetBranch, shas))

DoCherryPick(A, max) ==
  \E ref \in A : \E s \in sha(commits) :
    /\ Len(cherryPick(St, ref, s).st.commits) <= max
    /\ Apply("cherryPick", ref, cherryPick(St, ref, s))

DoResetHard(A) == \E target \in A : Apply("resetHard", target, resetHard(St, target))

DoPush(A) == \E name \in A : Apply("push", name, push(St, name))

DoPull(A) == \E name \in A : Apply("pull", name, pull(St, name))

(***************************************************************************)
(* SpecMerge: the operations that build and merge branches.                *)
(***************************************************************************)
NextMerge ==
  \/ DoInit
  \/ DoCommit(Msgs, MaxCommitsMerge)
  \/ DoBranch
  \/ DoCheckout(BranchArgs)
  \/ DoCheckoutNewBranch
  \/ DoMerge(BranchArgs, MaxCommitsMerge)

SpecMerge == Init /\ [][NextMerge]_vars

(***************************************************************************)
(* SpecRebase: the operations that build, merge and rebase branches.       *)
(* commit is called while the table holds fewer than MaxPlainRebase        *)
(* commits; merge and rebase may fill it up to MaxCommitsRebase.           *)
(***************************************************************************)
NextRebase ==
  \/ DoInit
  \/ DoCommit(Msgs, MaxPlainRebase)
  \/ DoBranch
  \/ DoCheckout(Names)
  \/ DoMerge(Names, MaxCommitsRebase)
  \/ DoRebase(Names, MaxCommitsRebase)

SpecRebase == Init /\ [][NextRebase]_vars

(***************************************************************************)
(* SpecReset: the operations that move a branch reference.                 *)
(***************************************************************************)
NextReset ==
  \/ DoInit
  \/ DoCommit(OneMsg, MaxCommitsReset)
  \/ DoBranch
  \/ DoCheckout(BranchArgs)
  \/ DoResetHard(ResetArgs)
  \/ DoPush({NULL} \cup BranchArgs)
  \/ DoPull({NULL} \cup BranchArgs)

SpecReset == Init /\ [][NextReset]_vars

(***************************************************************************)
(* SpecHead: the operations that move HEAD.                                *)
(***************************************************************************)
NextHead ==
  \/ DoInit
  \/ DoCommit(OneMsg, MaxCommitsHead)
  \/ DoBranch
  \/ DoCheckout(BranchArgs \cup RefArgs)
  \/ DoCheckoutNewBranch
  \/ DoCherryPick(RefArgs, MaxCommitsHead)

SpecHead == Init /\ [][NextHead]_vars

(***************************************************************************)
(* SpecAPI: the object GitState exports.  init, log and status are the     *)
(* function declarations; every other operation is the declaration         *)
(* wrapped between two calls of assertValidState.                          *)
(***************************************************************************)
MaxCommitsAPI == 3

ApiCommit ==
  \E message \in Msgs : \E s \in sha(commits) :
    /\ Len(commits) < MaxCommitsAPI
    /\ Apply("commit", message, Wrapped(St, commit(St, message, s)))

ApiBranch == \E name \in BranchArgs : Apply("branch", name, Wrapped(St, branch(St, name)))

ApiCheckout ==
  \E target \in BranchArgs \cup RefArgs :
    Apply("checkout", target, Wrapped(St, checkout(St, target)))

ApiCheckoutNewBranch ==
  \E name \in BranchArgs :
    Apply("checkoutNewBranch", name, Wrapped(St, checkoutNewBranch(St, name)))

ApiMerge ==
  \E sourceBranch \in BranchArgs : \E s \in sha(commits) :
    /\ Len(Wrapped(St, merge(St, sourceBranch, s)).st.commits) <= MaxCommitsAPI
    /\ Apply("merge", sourceBranch, Wrapped(St, merge(St, sourceBranch, s)))

ApiRebase ==
  \E targetBranch \in BranchArgs :
    /\ Len(commits) + NeededShas(targetBranch) <= MaxCommitsAPI
    /\ \E shas \in shaSeqs(commits, NeededShas(targetBranch)) :
         Apply("rebase", targetBranch, Wrapped(St, rebase(St, targetBranch, shas)))

ApiCherryPick ==
  \E ref \in RefArgs : \E s \in sha(commits) :
    /\ Len(Wrapped(St, cherryPick(St, ref, s)).st.commits) <= MaxCommitsAPI
    /\ Apply("cherryPick", ref, Wrapped(St, cherryPick(St, ref, s)))

ApiResetHard ==
  \E target \in ResetArgs : Apply("resetHard", target, Wrapped(St, resetHard(St, target)))

ApiStash == Len(stash) < MaxStash /\ Apply("stash", NULL, Wrapped(St, stashPush(St)))

ApiStashPop == Apply("stashPop", NULL, Wrapped(St, stashPop(St)))

ApiTag ==
  \E name \in TagNames : \E target \in {NULL} \cup RefArgs :
    Apply("tag", <<name, target>>, Wrapped(St, tag(St, name, target)))

ApiPush ==
  \E name \in {NULL} \cup BranchArgs : Apply("push", name, Wrapped(St, push(St, name)))

ApiPull ==
  \E name \in {NULL} \cup BranchArgs : Apply("pull", name, Wrapped(St, pull(St, name)))

ApiLog == \E limit \in 0..MaxLog : Apply("log", limit, log(St, limit))

ApiStatus == Apply("status", NULL, status(St))

NextAPI ==
  \/ DoInit
  \/ ApiCommit
  \/ ApiBranch
  \/ ApiCheckout
  \/ ApiCheckoutNewBranch
  \/ ApiMerge
  \/ ApiRebase
  \/ ApiCherryPick
  \/ ApiResetHard
  \/ ApiStash
  \/ ApiStashPop
  \/ ApiTag
  \/ ApiPush
  \/ ApiPull
  \/ ApiLog
  \/ ApiStatus

SpecAPI == Init /\ [][NextAPI]_vars

(***************************************************************************)
(* Vocabulary of the properties, defined on the commit graph itself and    *)
(* not through the engine's traversal helpers.                             *)
(***************************************************************************)
ParentSet(C, X) == UNION {{ParentsOf(C, x)[j] : j \in 1..Len(ParentsOf(C, x))} : x \in X}

RECURSIVE Closure(_, _)
Closure(C, X) == IF ParentSet(C, X) \subseteq X THEN X ELSE Closure(C, X \cup ParentSet(C, X))

Reachable(C, tip) == Closure(C, {tip})

RECURSIVE FirstParentWalk(_, _, _)
FirstParentWalk(C, x, k) ==
  IF k = 0 THEN x
  ELSE IF ParentsOf(C, x) = <<>> THEN NULL
  ELSE FirstParentWalk(C, ParentsOf(C, x)[1], k - 1)

HeadResolves ==
  IF detached THEN Has(commits, HEAD) ELSE HEAD \in DOMAIN branches

BranchesResolve ==
  \A b \in DOMAIN branches : branches[b] # NULL => Has(commits, branches[b])

ParentsResolve ==
  \A i \in 1..Len(commits) : \A j \in 1..Len(commits[i].parents) :
    Has(commits, commits[i].parents[j])

Tip == IF detached THEN HEAD ELSE MapGet(branches, HEAD)

Added == {commits'[i] : i \in 1..Len(commits')} \ {commits[i] : i \in 1..Len(commits)}

RepoUnchanged ==
  UNCHANGED <<initialized, commits, branches, HEAD, detached, stash, tags, remote>>

MergeCall(X) ==
  /\ last'.op = "merge" /\ last'.arg = X
  /\ initialized /\ ~detached /\ X # HEAD /\ X \in DOMAIN branches
  /\ branches[X] # NULL /\ Tip # NULL

(***************************************************************************)
(* C1.  In every initialized state, the fresh repository included,         *)
(* commit(message) returns: it adds exactly one commit whose parents are   *)
(* the current tip (none when there is no tip), advances the attached      *)
(* branch to it (HEAD itself when detached) and returns the new id.        *)
(***************************************************************************)
C1_CommitSucceeds ==
  [][(initialized /\ last'.op = "commit" /\ last' # last) =>
       /\ last'.ok
       /\ Len(commits') = Len(commits) + 1
       /\ Cardinality(Added) = 1
       /\ \A c \in Added :
            /\ c.sha = last'.val
            /\ c.parents = (IF Tip # NULL THEN <<Tip>> ELSE <<>>)
            /\ IF detached THEN HEAD' = c.sha /\ branches' = branches
               ELSE branches' = [branches EXCEPT ![HEAD] = c.sha] /\ HEAD' = HEAD]_vars

(***************************************************************************)
(* C2.  In a repository reached by exported operations from init, the      *)
(* consistency check raises exactly on the states that break one of the    *)
(* three data-model invariants; in particular it accepts the fresh         *)
(* repository, whose default branch has a null target.                     *)
(***************************************************************************)
C2_CheckRaisesOnlyOnViolation ==
  initialized =>
    ((assertValidState(St) # "ok") <=> ~(HeadResolves /\ BranchesResolve /\ ParentsResolve))

(***************************************************************************)
(* C3.  Every id in the parent list of every commit of the table is a key  *)
(* of the table.                                                           *)
(***************************************************************************)
C3_NoDanglingParents == ParentsResolve

C3_Witness ==
  /\ \E i \in 1..Len(commits) : commits[i].isMerge /\ Len(commits[i].parents) = 2
  /\ \E i \in 1..Len(commits) : commits[i].rebased /\ Len(commits[i].parents) = 1

(***************************************************************************)
(* C4.  Every branch whose target is not null points to a key of the       *)
(* commit table, after resetHard and pull in particular.                   *)
(***************************************************************************)
C4_BranchesResolve == BranchesResolve

C4_Witness ==
  /\ last.op = "pull" /\ last.type = "fast-forward"
  /\ \E b \in DOMAIN branches : branches[b] = last.val /\ Has(commits, last.val)
  /\ Len(commits) >= 2

(***************************************************************************)
(* C5.  After init, an attached HEAD names a key of the branch table and   *)
(* a detached HEAD is a key of the commit table.                           *)
(***************************************************************************)
C5_HeadResolves == initialized => HeadResolves

C5_Witness ==
  /\ initialized /\ detached
  /\ last.op = "cherryPick" /\ last.ok /\ HEAD = last.val.sha

(***************************************************************************)
(* C6.  A merge(X) called with HEAD attached while the current tip C is a  *)
(* strict ancestor of X's tip S returns fast-forward, creates no commit    *)
(* and leaves the current branch at S.                                     *)
(***************************************************************************)
C6_FastForward ==
  [][\A X \in Names :
       (MergeCall(X) /\ Tip # branches[X] /\ Tip \in Reachable(commits, branches[X])) =>
         /\ last'.ok /\ last'.type = "fast-forward"
         /\ commits' = commits
         /\ branches'[HEAD] = branches[X]
         /\ HEAD' = HEAD]_vars

C6_Witness ==
  /\ last.op = "merge" /\ last.type = "fast-forward"
  /\ ~detached /\ branches[HEAD] = branches[last.arg]

(***************************************************************************)
(* C7.  A merge(X) that passes merge's precondition checks while neither   *)
(* of the current tip C and X's tip S is an ancestor of the other adds     *)
(* exactly one commit, with parents <<C, S>> and the merge flag, and        *)
(* advances the current branch, and no other branch, to it.                *)
(***************************************************************************)
C7_TrueMerge ==
  [][\A X \in Names :
       (/\ MergeCall(X)
        /\ Tip \notin Reachable(commits, branches[X])
        /\ branches[X] \notin Reachable(commits, Tip)) =>
         /\ last'.ok /\ last'.type = "merge"
         /\ Len(commits') = Len(commits) + 1
         /\ Cardinality(Added) = 1
         /\ \A c \in Added :
              /\ c.parents = <<Tip, branches[X]>>
              /\ c.isMerge
              /\ branches' = [branches EXCEPT ![HEAD] = c.sha]
         /\ HEAD' = HEAD]_vars

C7_Witness ==
  /\ last.op = "merge" /\ last.type = "merge"
  /\ ~detached /\ Has(commits, branches[HEAD])
  /\ Get(commits, branches[HEAD]).parents[2] = branches[last.arg]

C9_RebaseLinear ==
  [][(last'.op = "rebase" /\ last'.type = "rebase") =>
       /\ Cardinality(Added) = last'.val.count
       /\ FirstParentWalk(commits', branches'[HEAD'], last'.val.count) = branches[last'.arg]
       /\ \A j \in 0..(last'.val.count - 1) :
            \E c \in Added : c.sha = FirstParentWalk(commits', branches'[HEAD'], j)
       /\ \A c \in Added :
            /\ Len(c.parents) = 1
            /\ c.rebased
            /\ Has(commits, c.originalSha)
            /\ c.message = Get(commits, c.originalSha).message]_vars

C9_Witness ==
  /\ last.op = "rebase" /\ last.type = "rebase" /\ last.val.count = 2
  /\ \E i \in 1..Len(commits) : \E j \in 1..Len(commits) :
       /\ commits[i].rebased /\ commits[j].rebased
       /\ commits[i].message # commits[j].message

(***************************************************************************)
(* C10.  A rebase(T) that immediately follows a successful rebase(T)       *)
(* returns already-up-to-date and adds no commit.                          *)
(***************************************************************************)
C10_RebaseTwice ==
  [][(/\ last.op = "rebase" /\ last.ok
      /\ last'.op = "rebase" /\ last'.arg = last.arg
      /\ (last' # last \/ commits' # commits)) =>
       /\ last'.ok /\ last'.type = "already-up-to-date"
       /\ commits' = commits]_vars

(***************************************************************************)
(* C11.  A merge(X) that directly follows a successful merge(X), whatever  *)
(* the kind of the first result, returns already-up-to-date and leaves the *)
(* commit table as it was.                                                 *)
(***************************************************************************)
C11_MergeTwice ==
  [][(/\ last.op = "merge" /\ last.ok
      /\ last'.op = "merge" /\ last'.arg = last.arg
      /\ (last' # last \/ commits' # commits)) =>
       /\ last'.ok
       /\ last'.type = "already-up-to-date"
       /\ commits' = commits]_vars

C11_Witness ==
  /\ last.op = "merge" /\ last.ok /\ last.type = "already-up-to-date"
  /\ ~detached /\ Has(commits, Tip)
  /\ Get(commits, Tip).isMerge
  /\ Len(Get(commits, Tip).parents) = 2
  /\ Get(commits, Tip).parents[2] = MapGet(branches, last.arg)

(***************************************************************************)
(* C12.  A rebase(T) that returns looks at the commits reachable from the  *)
(* current tip that are not reachable from T's tip (T's tip included in    *)
(* the latter).  When there are some, it appends as many commits as there  *)
(* are, each flagged rebased and naming a different one of them as its     *)
(* originalSha, moves the current branch to the last commit appended and   *)
(* keeps every earlier commit of the table.  When there are none, it       *)
(* returns already-up-to-date and changes nothing.                         *)
(***************************************************************************)
C12_RebaseReplaySet ==
  [][(last'.op = "rebase" /\ last'.ok /\ (last' # last \/ commits' # commits)) =>
       LET toMove == Reachable(commits, Tip) \ Reachable(commits, branches[last'.arg])
       IN  IF toMove = {}
             THEN last'.type = "already-up-to-date" /\ RepoUnchanged
             ELSE /\ last'.type = "rebase"
                  /\ last'.val.count = Cardinality(toMove)
                  /\ Len(commits') = Len(commits) + Cardinality(toMove)
                  /\ SubSeq(commits', 1, Len(commits)) = commits
                  /\ Cardinality(Added) = Cardinality(toMove)
                  /\ \A c \in Added : c.rebased /\ c.originalSha \in toMove
                  /\ {c.originalSha : c \in Added} = toMove
                  /\ HEAD' = HEAD /\ ~detached'
                  /\ branches'[HEAD] = commits'[Len(commits')].sha
                  /\ last'.val.tip = branches'[HEAD]]_vars

C12_Witness ==
  /\ last.op = "rebase" /\ last.ok /\ last.type = "rebase"
  /\ last.val.count >= 2
  /\ Tip = last.val.tip
  /\ \E i \in 1..Len(commits) :
       /\ commits[i].rebased
       /\ Has(commits, commits[i].originalSha)
       /\ Get(commits, commits[i].originalSha).isMerge

(***************************************************************************)
(* SpecGuards: merge and rebase called in every kind of state: HEAD        *)
(* attached or detached, branches with and without commits, arguments     *)
(* that name the current branch, another branch or no branch.  commit is   *)
(* called while the table holds fewer than MaxPlainGuards commits; merge   *)
(* and rebase may fill it up to MaxCommitsGuards.                          *)
(***************************************************************************)
MaxPlainGuards == 3

MaxCommitsGuards == 4

NextGuards ==
  \/ DoInit
  \/ DoCommit(OneMsg, MaxPlainGuards)
  \/ DoBranch
  \/ DoCheckout(BranchArgs \cup RefArgs)
  \/ DoCheckoutNewBranch
  \/ DoMerge(BranchArgs, MaxCommitsGuards)
  \/ DoRebase(BranchArgs, MaxCommitsGuards)

SpecGuards == Init /\ [][NextGuards]_vars

(***************************************************************************)
(* C13.  In an initialized repository merge(X) and rebase(X) raise exactly *)
(* when HEAD is detached, X is the current branch, X is not a branch, X    *)
(* has no commits, or the current branch has no commits.                   *)
(***************************************************************************)
MustFail(X) ==
  \/ detached
  \/ X = HEAD
  \/ X \notin DOMAIN branches
  \/ MapGet(branches, X) = NULL
  \/ MapGet(branches, HEAD) = NULL

C13_MergeRebaseFailExactly ==
  [][(/\ initialized
      /\ last'.op \in {"merge", "rebase"}
      /\ (last' # last \/ commits' # commits)) =>
       (~last'.ok <=> MustFail(last'.arg))]_vars

C13_Witness ==
  /\ last.op = "rebase" /\ ~last.ok
  /\ ~detached /\ last.arg \in DOMAIN branches /\ last.arg # HEAD
  /\ branches[last.arg] # NULL
  /\ branches[HEAD] = NULL

(***************************************************************************)
(* SpecAll: every mutator of GitState, as declared, with the arguments     *)
(* that make each of its throw statements fire.  MaxCommitsAll bounds the  *)
(* commit table; MaxSideAll bounds the entries that the stash, the tag     *)
(* table and the remote table hold together.                               *)
(***************************************************************************)
MaxCommitsAll == 1

MaxSideAll == 1

IdArgs == KeySet(commits) \cup {NoSuchName}

SideEntries(S) == Len(S.stash) + Cardinality(DOMAIN S.tags) + Cardinality(DOMAIN S.remote)

DoStash(max) ==
  /\ SideEntries(stashPush(St).st) <= max
  /\ Apply("stash", NULL, stashPush(St))

DoStashPop == Apply("stashPop", NULL, stashPop(St))

DoTag(N, A, max) ==
  \E name \in N : \E target \in A :
    /\ SideEntries(tag(St, name, target).st) <= max
    /\ Apply("tag", <<name, target>>, tag(St, name, target))

DoPushWithin(A, max) ==
  \E name \in A :
    /\ SideEntries(push(St, name).st) <= max
    /\ Apply("push", name, push(St, name))

NextAll ==
  \/ DoInit
  \/ DoCommit(OneMsg, MaxCommitsAll)
  \/ DoBranch
  \/ DoCheckout(Names \cup IdArgs)
  \/ DoCheckoutNewBranch
  \/ DoMerge(BranchArgs, MaxCommitsAll)
  \/ DoRebase(BranchArgs, MaxCommitsAll)
  \/ DoCherryPick(IdArgs, MaxCommitsAll)
  \/ DoResetHard({"HEAD", "HEAD~1"} \cup IdArgs)
  \/ DoStash(MaxSideAll)
  \/ DoStashPop
  \/ DoTag({"v1"}, {NULL} \cup IdArgs, MaxSideAll)
  \/ DoPushWithin({NULL, NoSuchName}, MaxSideAll)
  \/ DoPull({NULL, NoSuchName})

SpecAll == Init /\ [][NextAll]_vars

(***************************************************************************)
(* C14.  A call that raises leaves the commit table, the branches, the     *)
(* tags, the remote table, the stash, HEAD and the detached flag exactly   *)
(* as they were before the call.                                           *)
(***************************************************************************)
C14_FailureChangesNothing == [][~last'.ok => RepoUnchanged]_vars

C14_Witness ==
  /\ ~last.ok
  /\ last.op = "cherryPick"
  /\ last.type = "cannot cherry-pick: no commits on current branch"
  /\ Has(commits, last.arg)
  /\ ~detached /\ MapGet(branches, HEAD) = NULL

(***************************************************************************)
(* C15.  Before the first init every operation other than init raises      *)
(* 'not a git repository' and changes nothing.                             *)
(***************************************************************************)
C15_NotARepository ==
  [][(~initialized /\ last'.op # "init") =>
       /\ ~last'.ok
       /\ last'.type = "not a git repository"
       /\ RepoUnchanged]_vars

(***************************************************************************)
(* C16.  init never raises, and whatever the state it is called in, it     *)
(* leaves an initialized repository with no commit, exactly one branch,    *)
(* whose target is null, HEAD attached to that branch, and an empty stash, *)
(* tag table and remote table.                                             *)
(***************************************************************************)
C16_InitResets ==
  last.op = "init" =>
    /\ last.ok
    /\ initialized
    /\ commits = <<>>
    /\ Cardinality(DOMAIN branches) = 1
    /\ \A b \in DOMAIN branches : branches[b] = NULL
    /\ ~detached
    /\ HEAD \in DOMAIN branches
    /\ stash = <<>>
    /\ DOMAIN tags = {}
    /\ DOMAIN remote = {}

C16_Witness ==
  /\ last.op = "init" /\ last.ok
  /\ initialized /\ commits = <<>> /\ ~detached
  /\ HEAD \in DOMAIN branches /\ branches[HEAD] = NULL

(***************************************************************************)
(* C17.  checkout(target) attaches HEAD to target when target is a branch  *)
(* name; otherwise, when target is the id of a commit, or a prefix of the  *)
(* id of exactly one commit, it detaches HEAD to that commit's full id;    *)
(* otherwise it raises and leaves HEAD as it was.  It never changes the    *)
(* commits, the branch targets, the tags, the stash or the remote table.   *)
(***************************************************************************)
PrefixMatches(t) == {k \in KeySet(commits) : StartsWith(k, t)}

C17_Checkout ==
  [][(last'.op = "checkout" /\ (last' # last \/ HEAD' # HEAD \/ detached' # detached)) =>
       /\ UNCHANGED <<commits, branches, tags, stash, remote>>
       /\ IF last'.arg \in DOMAIN branches
            THEN last'.ok /\ HEAD' = last'.arg /\ ~detached'
          ELSE IF Has(commits, last'.arg)
            THEN last'.ok /\ HEAD' = last'.arg /\ detached'
          ELSE IF Cardinality(PrefixMatches(last'.arg)) = 1
            THEN last'.ok /\ HEAD' \in PrefixMatches(last'.arg) /\ detached'
          ELSE ~last'.ok /\ HEAD' = HEAD /\ detached' = detached]_vars

(***************************************************************************)
(* C18.  In an initialized repository checkoutNewBranch(name) raises only  *)
(* when name is already a branch, and then changes nothing; otherwise it   *)
(* adds name with the current tip as target, attaches HEAD to name, and    *)
(* leaves the commit table and every other branch as they were.            *)
(***************************************************************************)
C18_CheckoutNewBranch ==
  [][(/\ initialized
      /\ last'.op = "checkoutNewBranch"
      /\ (last' # last \/ HEAD' # HEAD \/ detached' # detached)) =>
       IF last'.arg \in DOMAIN branches
         THEN ~last'.ok /\ RepoUnchanged
         ELSE /\ last'.ok
              /\ branches' = MapPut(branches, last'.arg, Tip)
              /\ HEAD' = last'.arg
              /\ ~detached'
              /\ UNCHANGED <<initialized, commits, stash, tags, remote>>]_vars

(***************************************************************************)
(* C19.  At most one branch has a null target, and a branch with a null    *)
(* target can only be the default branch that init created.                *)
(***************************************************************************)
EmptyBranches == {b \in DOMAIN branches : branches[b] = NULL}

C19_OneEmptyBranch ==
  /\ Cardinality(EmptyBranches) <= 1
  /\ EmptyBranches \subseteq {DefaultBranch}

(***************************************************************************)
(* C20.  branch(name) raises, changing nothing, when name is already a     *)
(* branch or when there is no current tip; otherwise it adds name with the *)
(* current tip as target (the detached commit when HEAD is detached) and   *)
(* leaves HEAD, the detached flag, every other branch and the commit table *)
(* as they were.                                                           *)
(***************************************************************************)
C20_CreateBranch ==
  [][(last'.op = "branch" /\ (last' # last \/ branches' # branches)) =>
       IF last'.arg \in DOMAIN branches \/ Tip = NULL
         THEN ~last'.ok /\ RepoUnchanged
         ELSE /\ last'.ok
              /\ branches' = MapPut(branches, last'.arg, Tip)
              /\ UNCHANGED <<initialized, commits, HEAD, detached, stash, tags, remote>>]_vars

C20_Witness ==
  /\ last.op = "branch" /\ last.ok
  /\ detached /\ Has(commits, HEAD)
  /\ last.arg \in DOMAIN branches
  /\ branches[last.arg] = HEAD
  /\ \E b \in DOMAIN branches : branches[b] # HEAD

(***************************************************************************)
(* C21.  cherryPick(ref), where ref is the id of a commit X or a prefix of *)
(* the id of X and of no other commit, called with current tip P, adds     *)
(* exactly one commit with X's message, parents <<P>>, the cherryPicked    *)
(* flag and originalSha = X's id, and moves the attached branch (HEAD      *)
(* itself when detached) to it; with no current tip it raises and changes  *)
(* nothing.                                                                *)
(***************************************************************************)
Resolves(ref) == Has(commits, ref) \/ Cardinality(PrefixMatches(ref)) = 1

Resolved(ref) ==
  IF Has(commits, ref) THEN ref ELSE CHOOSE k \in PrefixMatches(ref) : TRUE

C21_CherryPick ==
  [][(/\ last'.op = "cherryPick"
      /\ Resolves(last'.arg)
      /\ (last' # last \/ commits' # commits)) =>
       IF Tip = NULL
         THEN ~last'.ok /\ RepoUnchanged
         ELSE /\ last'.ok
              /\ Len(commits') = Len(commits) + 1
              /\ SubSeq(commits', 1, Len(commits)) = commits
              /\ LET c == commits'[Len(commits')]
                     X == Get(commits, Resolved(last'.arg))
                 IN  /\ c.message = X.message
                     /\ c.parents = <<Tip>>
                     /\ c.cherryPicked
                     /\ c.originalSha = X.sha
                     /\ last'.val.sha = c.sha
                     /\ last'.val.original = X.sha
                     /\ detached' = detached
                     /\ IF detached
                          THEN HEAD' = c.sha /\ branches' = branches
                          ELSE HEAD' = HEAD /\ branches' = MapPut(branches, HEAD, c.sha)
              /\ UNCHANGED <<initialized, stash, tags, remote>>]_vars

C21_Witness ==
  /\ last.op = "cherryPick" /\ last.ok
  /\ last.arg \in Prefixes
  /\ ~detached
  /\ branches[HEAD] = last.val.sha
  /\ Get(commits, last.val.sha).originalSha = last.val.original
  /\ Get(commits, last.val.sha).parents # <<last.val.original>>

(***************************************************************************)
(* The three operations that resolve a reference by id prefix, over a      *)
(* table large enough for two ids to share a prefix (a1 and a2).           *)
(***************************************************************************)
MaxCommitsPrefix == 3

MaxPickedPrefix == 4

MaxTagsPrefix == 1

NextPrefix ==
  \/ DoInit
  \/ DoCommit(OneMsg, MaxCommitsPrefix)
  \/ DoCherryPick(RefArgs, MaxPickedPrefix)
  \/ DoResetHard(RefArgs)
  \/ DoTag({"v1"}, RefArgs, MaxTagsPrefix)

SpecPrefix == Init /\ [][NextPrefix]_vars

(***************************************************************************)
(* C22.  cherryPick, resetHard and tag, given a reference that is not a    *)
(* full id (and, for resetHard, not HEAD or HEAD~N), succeed only when     *)
(* exactly one commit id starts with it; with several matches or none      *)
(* they raise and change nothing.                                          *)
(***************************************************************************)
PrefixRef ==
  IF last'.op = "cherryPick" THEN last'.arg
  ELSE IF last'.op = "resetHard" /\ ~IsHeadTilde(last'.arg) /\ last'.arg # "HEAD" THEN last'.arg
  ELSE IF last'.op = "tag" THEN last'.arg[2]
  ELSE NULL

C22_PrefixUnique ==
  [][(/\ last'.op \in {"cherryPick", "resetHard", "tag"}
      /\ PrefixRef # NULL
      /\ ~Has(commits, PrefixRef)
      /\ Cardinality(PrefixMatches(PrefixRef)) # 1
      /\ (last' # last \/ commits' # commits)) =>
       ~last'.ok /\ RepoUnchanged]_vars

(***************************************************************************)
(* Reference movement with a detached HEAD in reach: resetHard, push and   *)
(* pull over every argument form, after checkouts of branches and ids.     *)
(***************************************************************************)
MaxCommitsRefs == 2

NextRefs ==
  \/ DoInit
  \/ DoCommit(OneMsg, MaxCommitsRefs)
  \/ DoBranch
  \/ DoCheckout(Names \cup IdArgs)
  \/ DoResetHard(ResetArgs)
  \/ DoPush({NULL} \cup BranchArgs)
  \/ DoPull({NULL} \cup BranchArgs)

SpecRefs == Init /\ [][NextRefs]_vars

(***************************************************************************)
(* C23.  With HEAD attached, resetHard("HEAD~N") sets the current branch   *)
(* to the commit reached from its tip by N first-parent steps, and raises  *)
(* with no change when the walk runs past a root; with HEAD detached every *)
(* resetHard raises with no change; every resetHard that returns changes   *)
(* nothing but the current branch's reference.                             *)
(***************************************************************************)
TildeSteps(target) == parseInt(SubSeq(target, 6, Len(target)), 0)

StNext ==
  [initialized |-> initialized', commits |-> commits', branches |-> branches',
   HEAD |-> HEAD', detached |-> detached', stash |-> stash', tags |-> tags',
   remote |-> remote']

C25_DetachedCommit ==
  [][(/\ last'.op = "commit"
      /\ initialized /\ detached
      /\ (last' # last \/ commits' # commits)) =>
       /\ last'.ok
       /\ Len(commits') = Len(commits) + 1
       /\ LET c == commits'[Len(commits')]
          IN  /\ ~Has(commits, c.sha)
              /\ last'.val = c.sha
              /\ HEAD' = c.sha
              /\ detached'
              /\ c.branch = NULL
              /\ c.parents = <<HEAD>>
              /\ \A b \in DOMAIN branches' : branches'[b] # c.sha
       /\ branches' = branches
       /\ status(StNext).val.branches = status(St).val.branches
       /\ status(StNext).val.branch = NULL]_vars

C25_Witness ==
  /\ last.op = "commit" /\ last.ok
  /\ detached
  /\ HEAD = last.val
  /\ Get(commits, HEAD).branch = NULL
  /\ Len(Get(commits, HEAD).parents) = 1
  /\ \A b \in DOMAIN branches : branches[b] # HEAD
  /\ \E b \in DOMAIN branches : branches[b] = Get(commits, HEAD).parents[1]

(***************************************************************************)
(* C26.  push(name) works on the named branch, or on the current branch    *)
(* when no name is given.  It raises with no change when no name is given  *)
(* and HEAD is detached, when the branch is unknown, and when the branch   *)
(* has no commits.  Otherwise it sets remote[name] to the branch's tip,    *)
(* reports isNew when there was no entry and wasUpToDate when the entry    *)
(* already held that tip, and changes nothing else.                        *)
(***************************************************************************)
RemoteName(arg) == IF arg # NULL THEN arg ELSE IF detached THEN NULL ELSE HEAD

C27_Pull ==
  [][(last'.op = "pull" /\ (last' # last \/ branches' # branches)) =>
       LET name == RemoteName(last'.arg)
       IN  IF name = NULL \/ name \notin DOMAIN remote
             THEN ~last'.ok /\ RepoUnchanged
           ELSE IF MapGet(branches, name) = remote[name]
             THEN last'.ok /\ last'.type = "up-to-date" /\ RepoUnchanged
           ELSE /\ last'.ok /\ last'.type = "fast-forward"
                /\ DOMAIN branches' = DOMAIN branches \cup {name}
                /\ branches'[name] = remote[name]
                /\ \A b \in DOMAIN branches : b # name => branches'[b] = branches[b]
                /\ UNCHANGED <<initialized, commits, HEAD, detached, stash, tags, remote>>]_vars

C27_Witness ==
  /\ last.op = "pull" /\ last.ok /\ last.type = "fast-forward"
  /\ ~detached
  /\ branches[HEAD] = remote[HEAD]
  /\ \E i \in 1..Len(commits) :
       /\ commits[i].parents = <<branches[HEAD]>>
       /\ \A b \in DOMAIN branches : branches[b] # commits[i].sha

(***************************************************************************)
(* C28.  A pull that immediately follows a successful push of the same     *)
(* branch finds the local tip equal to the remote entry, reports           *)
(* up-to-date and changes nothing.                                         *)
(***************************************************************************)
C28_PushThenPull ==
  [][(/\ last.op = "push" /\ last.ok
      /\ last'.op = "pull"
      /\ RemoteName(last'.arg) = last.val.branch) =>
       /\ branches[last.val.branch] = remote[last.val.branch]
       /\ last'.ok /\ last'.type = "up-to-date"
       /\ RepoUnchanged]_vars

C28_Witness ==
  /\ last.op = "pull" /\ last.ok /\ last.type = "up-to-date"
  /\ last.arg = NULL
  /\ ~detached
  /\ Len(commits) = 2
  /\ branches[HEAD] = commits[2].sha
  /\ remote[HEAD] = commits[2].sha

(***************************************************************************)
(* The side tables: stash and tags, filled at different tips and read back *)
(* through status, with HEAD attached or detached.  MaxSideEntries bounds  *)
(* the entries of stash, tags and remote taken together.                   *)
(***************************************************************************)
MaxCommitsSide == 2

MaxSideEntries == 2

NextSide ==
  \/ DoInit
  \/ DoCommit(OneMsg, MaxCommitsSide)
  \/ DoCheckout(Names \cup IdArgs)
  \/ DoStash(MaxSideEntries)
  \/ DoStashPop
  \/ DoTag(TagNames, {NULL} \cup IdArgs, MaxSideEntries)
  \/ ApiStatus

SpecSide == Init /\ [][NextSide]_vars

(***************************************************************************)
(* C29.  tag(name, target) raises with no change when name is already a    *)
(* tag, and a tag, once created, keeps its target through every later      *)
(* step other than init.                                                   *)
(***************************************************************************)
C29_TagsNeverMove ==
  [][/\ last'.op # "init" =>
          \A n \in DOMAIN tags : n \in DOMAIN tags' /\ tags'[n] = tags[n]
     /\ (last'.op = "tag" /\ last'.arg[1] \in DOMAIN tags) =>
          ~last'.ok /\ RepoUnchanged]_vars

C29_Witness ==
  /\ last.op = "tag" /\ ~last.ok
  /\ last.type = "tag already exists"
  /\ last.arg[1] \in DOMAIN tags
  /\ Has(commits, last.arg[2])
  /\ tags[last.arg[1]] # last.arg[2]
  /\ Tip # tags[last.arg[1]]

(***************************************************************************)
(* C30.  stash() appends the current tip to the stash and returns the new  *)
(* entry's index, raising with no change when there is no tip; stashPop()  *)
(* removes and returns the entry stashed last, raising with no change on   *)
(* an empty stash; status().stashCount is the depth of the stash; neither  *)
(* call changes commits, branches or HEAD.                                 *)
(***************************************************************************)
C30_StashLifo ==
  [][/\ last'.op = "stash" =>
          IF Tip = NULL
            THEN ~last'.ok /\ RepoUnchanged
            ELSE /\ last'.ok
                 /\ stash' = Append(stash, Tip)
                 /\ last'.val = Len(stash)
                 /\ stash'[last'.val + 1] = Tip
                 /\ UNCHANGED <<initialized, commits, branches, HEAD, detached, tags, remote>>
     /\ last'.op = "stashPop" =>
          IF stash = <<>>
            THEN ~last'.ok /\ RepoUnchanged
            ELSE /\ last'.ok
                 /\ last'.val = stash[Len(stash)]
                 /\ stash = Append(stash', last'.val)
                 /\ UNCHANGED <<initialized, commits, branches, HEAD, detached, tags, remote>>
     /\ initialized' => status(StNext).val.stashCount = Len(stash')
     /\ (last'.op = "status" /\ last'.ok) => last'.val.stashCount = Len(stash)]_vars

C30_Witness ==
  /\ last.op = "stashPop" /\ last.ok
  /\ Len(commits) = 2
  /\ last.val = commits[2].sha
  /\ stash = <<commits[1].sha>>

(***************************************************************************)
(* History listing over graphs with merges: log with limits below, at and  *)
(* above the number of reachable commits, HEAD attached or detached.       *)
(***************************************************************************)
MaxCommitsLog == 4

MaxLimit == 5

DoLog(L) == \E limit \in L : Apply("log", limit, log(St, limit))

NextLog ==
  \/ DoInit
  \/ DoCommit(OneMsg, MaxCommitsLog)
  \/ DoBranch
  \/ DoCheckout(Names \cup IdArgs)
  \/ DoMerge(Names, MaxCommitsLog)
  \/ DoLog(0..MaxLimit)

SpecLog == Init /\ [][NextLog]_vars

(***************************************************************************)
(* C31.  log(limit) returns min(limit, n) distinct commits, n being the    *)
(* number of commits reachable from the current tip through parents of any *)
(* position; the first is the tip, each is reachable from the tip; on a    *)
(* history without merge commits each entry is followed by its parent      *)
(* (newest first); with no tip the result is empty.                        *)
(***************************************************************************)
MinOf(a, b) == IF a < b THEN a ELSE b

C31_Log ==
  (last.op = "log" /\ initialized) =>
    /\ last.ok
    /\ LET R == last.val
           n == IF Tip = NULL THEN 0 ELSE Cardinality(Reachable(commits, Tip))
       IN  /\ Len(R) = MinOf(last.arg, n)
           /\ \A i \in 1..Len(R) : \A j \in 1..Len(R) : i # j => R[i].sha # R[j].sha
           /\ \A i \in 1..Len(R) :
                /\ Has(commits, R[i].sha) /\ R[i] = Get(commits, R[i].sha)
                /\ R[i].sha \in Reachable(commits, Tip)
           /\ Len(R) > 0 => R[1].sha = Tip
           /\ (\A x \in Reachable(commits, Tip) : Len(ParentsOf(commits, x)) <= 1) =>
                \A i \in 1..(Len(R) - 1) : R[i].parents = <<R[i + 1].sha>>

C31_Witness ==
  /\ last.op = "log" /\ last.ok
  /\ last.arg = 5
  /\ Len(last.val) = 4
  /\ last.val[1].isMerge
  /\ last.val[1].sha = Tip

(***************************************************************************)
(* The command interpreter (CommandParser).  A handler returns display     *)
(* lines; the model keeps the first line as the result type.  An exception *)
(* that leaves a handler is caught by parse and shown as "fatal: ...".     *)
(* The handlers call the exported functions of GitState: init, status,     *)
(* getBranchList and snapshot as declared, the mutators through their      *)
(* wrappers.  Exports is the object returned at the end of GitState.       *)
(***************************************************************************)
Exports ==
  {"isInitialized", "init", "commit", "branch", "checkout", "checkoutNewBranch", "merge",
   "rebase", "cherryPick", "resetHard", "stash", "stashPop", "tag", "log", "status",
   "getBranchList", "getCommit", "push", "pull", "snapshot"}

TutorialMsg == "first commit"

req(S) == S.initialized

gitInit(S) ==
  IF S.initialized THEN Ok(S, "Reinitialized existing Git repository", NULL)
  ELSE Ok(init(S).st, "Initialized empty Git repository", NULL)

gitCommit(S, message, newSha) ==
  IF ~req(S) THEN Err(S, "fatal: not a git repository: .git not found")
  ELSE LET r == Wrapped(S, commit(S, message, newSha))
       IN  IF ~r.ok THEN Err(r.st, "fatal: " \o r.type)
           ELSE Ok(r.st, "commit", r.val)

gitBranch(S, name) ==
  IF ~req(S) THEN Err(S, "fatal: not a git repository: .git not found")
  ELSE LET r == Wrapped(S, branch(S, name))
       IN  IF ~r.ok THEN Err(r.st, "error: " \o r.type)
           ELSE Ok(r.st, "Branch created", name)

gitCheckout(S, target) ==
  IF ~req(S) THEN Err(S, "fatal: not a git repository: .git not found")
  ELSE LET r == Wrapped(S, checkout(S, target))
       IN  IF ~r.ok THEN Err(r.st, "error: " \o r.type)
           ELSE Ok(r.st, r.type, r.val)

gitMerge(S, source, newSha) ==
  IF ~req(S) THEN Err(S, "fatal: not a git repository: .git not found")
  ELSE IF source = status(S).val.branch THEN Err(S, "cannot merge a branch into itself")
  ELSE LET r == Wrapped(S, merge(S, source, newSha))
       IN  IF ~r.ok THEN Err(r.st, "error: " \o r.type)
           ELSE Ok(r.st, r.type, r.val)

diffAncestors(S, tip) ==
  IF "_getAllAncestors" \in Exports THEN getAllAncestors(S.commits, tip) ELSE {}

gitDiff(S, branchA, branchB) ==
  IF ~S.initialized THEN Err(S, "error: not a git repository")
  ELSE LET shaA == MapGet(S.branches, branchA)
           shaB == MapGet(S.branches, branchB)
       IN  IF ~Truthy(shaA) THEN Err(S, "Branch A not found")
           ELSE IF ~Truthy(shaB) THEN Err(S, "Branch B not found")
           ELSE LET ancestorsA == diffAncestors(S, shaA)
                    ancestorsB == diffAncestors(S, shaB)
                IN  Ok(S, "diff", [onlyA |-> ancestorsA \ ancestorsB,
                                   onlyB |-> ancestorsB \ ancestorsA])

MaxCommitsCmd == 3

CmdInit == Apply("git init", NULL, gitInit(St))

CmdCommit ==
  \E s \in sha(commits) :
    /\ Len(commits) < MaxCommitsCmd
    /\ Apply("git commit", TutorialMsg, gitCommit(St, TutorialMsg, s))

CmdBranch == \E name \in Names : Apply("git branch", name, gitBranch(St, name))

CmdCheckout == \E target \in Names : Apply("git checkout", target, gitCheckout(St, target))

CmdMerge ==
  \E source \in Names : \E s \in sha(commits) :
    /\ Len(gitMerge(St, source, s).st.commits) <= MaxCommitsCmd
    /\ Apply("git merge", source, gitMerge(St, source, s))

CmdDiff ==
  \E branchA \in BranchArgs : \E branchB \in BranchArgs :
    Apply("git diff", <<branchA, branchB>>, gitDiff(St, branchA, branchB))

(***************************************************************************)
(* SpecCmd: the interpreter's handlers next to the engine's operations as  *)
(* declared, which supply repositories with history for the handlers to    *)
(* act on.                                                                 *)
(***************************************************************************)
NextCmd ==
  \/ DoInit
  \/ DoCommit(OneMsg, MaxCommitsCmd)
  \/ DoBranch
  \/ DoCheckout(Names)
  \/ DoMerge(Names, MaxCommitsCmd)
  \/ CmdInit
  \/ CmdCommit
  \/ CmdBranch
  \/ CmdCheckout
  \/ CmdMerge
  \/ CmdDiff

SpecCmd == Init /\ [][NextCmd]_vars

(***************************************************************************)
(* C32.  The `git init` command always invokes the Model's init once: on   *)
(* an initialized repository too it leaves the empty initialized state     *)
(* (no commits, only the default branch, nothing stashed, tagged or        *)
(* pushed).                                                                *)
(***************************************************************************)
C32_GitInitResets ==
  [][last'.op = "git init" =>
       /\ initialized'
       /\ commits' = <<>>
       /\ branches' = [n \in {DefaultBranch} |-> NULL]
       /\ HEAD' = DefaultBranch /\ ~detached'
       /\ stash' = <<>> /\ tags' = EmptyMap /\ remote' = EmptyMap]_vars

(***************************************************************************)
(* C33.  The guided tutorial: from an uninitialized repository the         *)
(* commands git init; git commit -m "first commit"; git branch feature;    *)
(* git checkout feature; git checkout master; git merge feature, run in    *)
(* this order, make the completion checks of steps 1 to 5 true in turn.    *)
(* Tut(k) is the repository the tutorial expects once the first k          *)
(* commands have done what their steps describe.                           *)
(***************************************************************************)
Check1 == initialized

Check2 == initialized /\ Len(commits) > 0

Check3 == "feature" \in DOMAIN branches

Check4 == HEAD = "feature"

Check5 ==
  /\ HEAD = "master"
  /\ Has(commits, MapGet(branches, "master"))
  /\ Get(commits, branches["master"]).isMerge

Tut0 == ~initialized

Tut1 == St = init(St).st

Tut2 ==
  /\ initialized /\ ~detached /\ HEAD = "master"
  /\ Len(commits) = 1
  /\ branches = [n \in {"master"} |-> commits[1].sha]

Tut3 ==
  /\ initialized /\ ~detached /\ HEAD = "master"
  /\ Len(commits) = 1
  /\ branches = [n \in {"master", "feature"} |-> commits[1].sha]

Tut4 ==
  /\ initialized /\ ~detached /\ HEAD = "feature"
  /\ Len(commits) = 1
  /\ branches = [n \in {"master", "feature"} |-> commits[1].sha]

C33_Tutorial ==
  [][/\ (Tut0 /\ last'.op = "git init") => Check1'
     /\ (Tut1 /\ last'.op = "git commit" /\ last'.arg = TutorialMsg) => Check2'
     /\ (Tut2 /\ last'.op = "git branch" /\ last'.arg = "feature") => Check3'
     /\ (Tut3 /\ last'.op = "git checkout" /\ last'.arg = "feature") => Check4'
     /\ (Tut4 /\ last'.op = "git checkout" /\ last'.arg = "master") => Tut3'
     /\ (Tut3 /\ last'.op = "git merge" /\ last'.arg = "feature") => Check5']_vars

(* The last command alone, from the repository steps 1 to 4 build. *)
TutorialLastStep ==
  [][(Tut3 /\ last'.op = "git merge" /\ last'.arg = "feature") => Check5']_vars

(* The commands that do what their steps describe once a commit exists. *)
TutorialMiddleSteps ==
  [][/\ (Tut0 /\ last'.op = "git init") => Check1'
     /\ (Tut2 /\ last'.op = "git branch" /\ last'.arg = "feature") => Check3'
     /\ (Tut3 /\ last'.op = "git checkout" /\ last'.arg = "feature") => Check4'
     /\ (Tut4 /\ last'.op = "git checkout" /\ last'.arg = "master") => Tut3']_vars

(***************************************************************************)
(* Rebase ranges with a merge commit inside: two branches diverge and are  *)
(* merged, then the other branch is reset behind the fork, so that the     *)
(* whole diamond lies in the range; the range is computed as rebase        *)
(* computes it.  MaxPlainSince bounds the table for commit,                *)
(* MaxCommitsSince for merge.                                              *)
(***************************************************************************)
MaxCommitsSince == 6

MaxPlainSince == 5

rebaseRange(S, targetBranch) ==
  IF ~S.initialized THEN Err(S, "not a git repository")
  ELSE IF S.detached THEN Err(S, "cannot rebase in detached HEAD state")
  ELSE IF targetBranch = S.HEAD THEN Err(S, "cannot rebase a branch onto itself")
  ELSE IF targetBranch \notin DOMAIN S.branches THEN Err(S, "branch not found")
  ELSE IF ~Truthy(S.branches[targetBranch]) THEN Err(S, "branch has no commits")
  ELSE IF ~Truthy(currentSha(S)) THEN Err(S, "current branch has no commits to rebase")
  ELSE Ok(S, "commitsSince", KeySeq(toReplayOf(S, targetBranch)))

DoCommitsSince(A) ==
  \E targetBranch \in A :
    /\ rebaseRange(St, targetBranch).ok
    /\ Apply("commitsSince", targetBranch, rebaseRange(St, targetBranch))

NextSince ==
  \/ DoInit
  \/ DoCommit(OneMsg, MaxPlainSince)
  \/ DoBranch
  \/ DoCheckout(Names)
  \/ DoMerge(Names, MaxCommitsSince)
  \/ DoResetHard({"HEAD~3"})
  \/ DoCommitsSince(Names)

SpecSince == Init /\ [][NextSince]_vars

(***************************************************************************)
(* C34.  The sequence commitsSince returns, which is the order in which    *)
(* rebase replays, is oldest-first: no commit of the sequence comes before *)
(* one of its own ancestors that is also in the sequence.                  *)
(***************************************************************************)
C34_OldestFirst ==
  last.op = "commitsSince" =>
    \A i \in 1..Len(last.val) : \A j \in 1..Len(last.val) :
      i < j => (last.val[j] = last.val[i] \/ last.val[j] \notin Reachable(commits, last.val[i]))

(***************************************************************************)
(* The ancestry helpers applied to every pair of commits of graphs with    *)
(* merge commits.                                                          *)
(***************************************************************************)
MaxCommitsAncestry == 4

DoIsAncestor ==
  \E a \in KeySet(commits) : \E b \in KeySet(commits) :
    Apply("isAncestor", <<a, b>>, Ok(St, "isAncestor", isAncestor(commits, a, b)))

DoAllAncestors ==
  \E tip \in KeySet(commits) :
    Apply("allAncestors", tip, Ok(St, "allAncestors", getAllAncestors(commits, tip)))

NextAncestry ==
  \/ DoInit
  \/ DoCommit(OneMsg, MaxCommitsAncestry)
  \/ DoBranch
  \/ DoCheckout(Names)
  \/ DoMerge(Names, MaxCommitsAncestry)
  \/ DoIsAncestor
  \/ DoAllAncestors

SpecAncestry == Init /\ [][NextAncestry]_vars

(***************************************************************************)
(* C35.  For all commits a and b, isAncestor(a, b) returns true exactly    *)
(* when a = b or a is reachable from b through parents of any position,    *)
(* and allAncestors(tip) is the set of commits reachable from tip, tip     *)
(* included.                                                               *)
(***************************************************************************)
C35_Ancestry ==
  /\ last.op = "isAncestor" =>
       (last.val <=> last.arg[1] \in Reachable(commits, last.arg[2]))
  /\ last.op = "allAncestors" =>
       /\ last.val = Reachable(commits, last.arg)
       /\ last.arg \in last.val

C35_Witness ==
  /\ last.op = "isAncestor" /\ last.val = TRUE
  /\ last.arg[1] # last.arg[2]
  /\ \A k \in 0..Len(commits) : FirstParentWalk(commits, last.arg[2], k) # last.arg[1]

(***************************************************************************)
(* The layout's topological sort (GraphRenderer._topoSort), applied to the *)
(* commit table of the snapshot.  inDeg counts, for each commit, the       *)
(* parent entries that name it; the queue starts with the commits nobody   *)
(* names, in table order.                                                  *)
(***************************************************************************)
Reverse(s) == [i \in 1..Len(s) |-> s[Len(s) + 1 - i]]

inDegOf(C) ==
  [s \in KeySet(C) |->
     Cardinality({<<i, j>> \in (1..Len(C)) \X (1..2) :
                    j <= Len(C[i].parents) /\ C[i].parents[j] = s})]

RECURSIVE topoParents(_, _, _)
topoParents(ps, inDeg, queue) ==
  IF ps = <<>> THEN [inDeg |-> inDeg, queue |-> queue]
  ELSE LET p == Head(ps)
       IN  IF p \notin DOMAIN inDeg THEN topoParents(Tail(ps), inDeg, queue)
           ELSE LET d == [inDeg EXCEPT ![p] = @ - 1]
                IN  topoParents(Tail(ps), d, IF d[p] = 0 THEN Append(queue, p) ELSE queue)

RECURSIVE topoLoop(_, _, _, _)
topoLoop(C, inDeg, queue, result) ==
  IF queue = <<>> THEN result
  ELSE LET s == Head(queue)
           r == topoParents(Get(C, s).parents, inDeg, Tail(queue))
       IN  topoLoop(C, r.inDeg, r.queue, Append(result, s))

topoSort_notReversed(C) ==
  topoLoop(C, inDegOf(C), SelectSeq(KeySeq(C), LAMBDA s : inDegOf(C)[s] = 0), <<>>)

topoSort(C) ==
  Reverse(topoLoop(C, inDegOf(C), SelectSeq(KeySeq(C), LAMBDA s : inDegOf(C)[s] = 0), <<>>))

MaxCommitsLayout == 4

DoTopoSort == Apply("topoSort", NULL, Ok(St, "topoSort", topoSort(commits)))

NextLayout ==
  \/ DoInit
  \/ DoCommit(OneMsg, MaxCommitsLayout)
  \/ DoBranch
  \/ DoCheckout(Names)
  \/ DoMerge(Names, MaxCommitsLayout)
  \/ DoResetHard({"HEAD~1"})
  \/ DoTopoSort

SpecLayout == Init /\ [][NextLayout]_vars

(***************************************************************************)
(* C36.  The layout's topological sort lists every commit of the table     *)
(* exactly once and lists every commit after all of its parents.           *)
(***************************************************************************)
PosIn(s, x) == CHOOSE i \in 1..Len(s) : s[i] = x

C37_Diff ==
  (last.op = "git diff" /\ last.ok) =>
    LET tipA == branches[last.arg[1]]
        tipB == branches[last.arg[2]]
    IN  /\ last.val.onlyA = Reachable(commits, tipA) \ Reachable(commits, tipB)
        /\ last.val.onlyB = Reachable(commits, tipB) \ Reachable(commits, tipA)

(***************************************************************************)
(* SpecTargets: the operations that record commit ids outside the branch   *)
(* table (tags, stash, remote) next to the operations that move branches   *)
(* away from commits and that empty the repository.                        *)
(***************************************************************************)
MaxCommitsTargets == 2

MaxTargets == 3

NextTargets ==
  \/ DoInit
  \/ DoCommit(OneMsg, MaxCommitsTargets)
  \/ DoBranch
  \/ DoCheckout(Names)
  \/ DoResetHard({"HEAD~1"})
  \/ DoStash(MaxTargets)
  \/ DoStashPop
  \/ DoTag({"v1"}, {NULL} \cup IdArgs, MaxTargets)
  \/ DoPushWithin({NULL, NoSuchName}, MaxTargets)
  \/ DoPull({NULL})

SpecTargets == Init /\ [][NextTargets]_vars

(***************************************************************************)
(* C38.  In every reachable state every tag target, every stash entry and  *)
(* every remote target is a key of the commit table, and every name in the *)
(* remote table is a branch name.                                          *)
(***************************************************************************)
C38_TargetsExist ==
  /\ \A t \in DOMAIN tags : tags[t] \in KeySet(commits)
  /\ \A i \in 1..Len(stash) : stash[i] \in KeySet(commits)
  /\ \A n \in DOMAIN remote : remote[n] \in KeySet(commits)
  /\ DOMAIN remote \subseteq DOMAIN branches

C38_Witness ==
  /\ DOMAIN tags # {} /\ Len(stash) > 0 /\ DOMAIN remote # {}
  /\ \E t \in DOMAIN tags :
       \A b \in DOMAIN branches : tags[t] \notin Reachable(commits, branches[b])
  /\ \E n \in DOMAIN remote : remote[n] # branches[n]

drawSha == {"a1", "b1"}

drawShaSeqs(n) == [1..n -> drawSha]

DrawCommit ==
  \E s \in drawSha : Apply("commit", "m1", commit(St, "m1", s))

DrawMerge ==
  \E sourceBranch \in Names : \E s \in drawSha :
    Apply("merge", sourceBranch, merge(St, sourceBranch, s))

DrawRebase ==
  \E targetBranch \in Names : \E shas \in drawShaSeqs(NeededShas(targetBranch)) :
    Apply("rebase", targetBranch, rebase(St, targetBranch, shas))

DrawCherryPick ==
  \E ref \in KeySet(commits) : \E s \in drawSha :
    Apply("cherryPick", ref, cherryPick(St, ref, s))

NextIds ==
  \/ DoInit
  \/ DrawCommit
  \/ DoBranch
  \/ DoCheckout(Names)
  \/ DrawMerge
  \/ DrawRebase
  \/ DrawCherryPick

SpecIds == Init /\ [][NextIds]_vars

(***************************************************************************)
(* C40.  Every commit-creating operation (commit, merge, rebase,           *)
(* cherryPick) stores each new commit under an id that is not already a    *)
(* key of the commit table: no commit of the table is overwritten and the  *)
(* table grows by exactly the number of commits the operation creates.     *)
(***************************************************************************)
Created(l) ==
  CASE l.op = "commit" -> 1
    [] l.op = "cherryPick" -> 1
    [] l.op = "merge" -> IF l.type = "merge" THEN 1 ELSE 0
    [] l.op = "rebase" -> IF l.type = "rebase" THEN l.val.count ELSE 0
    [] OTHER -> 0

C40_FreshIds ==
  [][(last'.ok /\ last'.op \in {"commit", "merge", "rebase", "cherryPick"}) =>
       /\ Len(commits') = Len(commits) + Created(last')
       /\ SubSeq(commits', 1, Len(commits)) = commits
       /\ Cardinality(KeySet(commits')) = Len(commits')]_vars

====
